---- MODULE Spec2Model ----
(***************************************************************************)
(* A model of chess-bench (src/main.go): the benchmark pipeline that       *)
(* resolves commit references, materialises one workspace per commit id,   *)
(* builds each workspace behind a settings fingerprint and then runs the   *)
(* timed benchmark loop.                                                   *)
(*                                                                         *)
(* The program is one sequential process.  pc is its position; every       *)
(* action is one externally visible step of main (a remote listing, a      *)
(* clone, a checkout, a marker write, a shell command) together with the   *)
(* local computation that follows it up to the next such step.  The        *)
(* workspace root (fs) outlives the process: Invoke starts the program     *)
(* again on the files an earlier invocation left.                          *)
(*                                                                         *)
(* Environment: the remote listing, clone, checkout and the shell commands *)
(* may fail.  Reading and writing the marker file and changing into a      *)
(* workspace directory that exists are taken to succeed (the error returns *)
(* of lines 195-197, 210-212, 224-226, 275-277 and of json.Marshal and     *)
(* Worktree are not taken).                                                *)
(***************************************************************************)
EXTENDS Integers, Sequences, FiniteSets, TLC

\* Largest number of commits in a configuration.
MaxCommits == 3
\* Largest number of times the program is started on the same workspace root.
MaxInvocations == 2
\* Number of hex characters of a commit id (scaled down from go-git's size).
HashHexLen == 2

None == "none"
NilErr == "nil"

(***************************************************************************)
(* References and commit ids.  A reference is a sequence of characters; a  *)
(* hash is the sequence of nibble values plumbing.FromHex decodes, and its *)
(* String() is the lower-case hex rendering, which names the workspace.    *)
(***************************************************************************)
HEAD == <<"H", "E", "A", "D">>

HexChars == {"0", "a", "A", "b", "B"}

Nibble(c) ==
  CASE c = "0" -> 0
    [] c \in {"a", "A"} -> 10
    [] c \in {"b", "B"} -> 11

LowerHex(n) ==
  CASE n = 0 -> "0"
    [] n = 10 -> "a"
    [] n = 11 -> "b"

ZeroHash == [i \in 1..HashHexLen |-> 0]

\* plumbing.FromHex (line 138): the hash and whether the text was well formed.
FromHex(h) ==
  IF Len(h) = HashHexLen /\ \A i \in 1..Len(h) : h[i] \in HexChars
    THEN [ok |-> TRUE, hash |-> [i \in 1..HashHexLen |-> Nibble(h[i])]]
    ELSE [ok |-> FALSE, hash |-> ZeroHash]

\* hash.String()
HashString(hash) == [i \in 1..Len(hash) |-> LowerHex(hash[i])]

IdA == [i \in 1..HashHexLen |-> 10]
IdB == [i \in 1..HashHexLen |-> 11]

\* The directory names under build/ that the modelled runs can create.
WorkDirs == {HashString(IdA), HashString(IdB)}

(***************************************************************************)
(* Remote listings (the result of remote.ListContext): a sequence of refs. *)
(* A symbolic ref has a target and the zero hash; a direct ref has a hash  *)
(* and an empty target.                                                    *)
(***************************************************************************)
SymRef(n, t) == [name |-> n, type |-> "symbolic", target |-> t, hash |-> ZeroHash]
HashRef(n, id) == [name |-> n, type |-> "hash", target |-> "", hash |-> id]

Listings ==
  { <<SymRef("HEAD", "refs/heads/main"), HashRef("refs/heads/main", IdA)>>,
    <<HashRef("HEAD", IdB), HashRef("refs/heads/main", IdB)>>,
    <<HashRef("refs/heads/main", IdA)>> }

\* What the network gives a listing call: an error, or one of the listings.
ListResults ==
  {[err |-> TRUE, refs |-> <<>>]} \cup {[err |-> FALSE, refs |-> l] : l \in Listings}

\* Index of the first ref of the listing with the given name, 0 if none
\* (the loops of lines 112-121 and 125-130 stop at the first match).
FirstNamed(refs, n) ==
  IF \E i \in 1..Len(refs) : refs[i].name = n
    THEN CHOOSE i \in 1..Len(refs) :
           /\ refs[i].name = n
           /\ \A j \in 1..(i - 1) : refs[j].name # n
    ELSE 0

\* Mutant of HeadHash: a symbolic target is followed a second level.
HeadHashChained(refs) ==
  LET hi == FirstNamed(refs, "HEAD")
      target == IF hi # 0 /\ refs[hi].type = "symbolic" THEN refs[hi].target ELSE ""
      direct == IF hi # 0 /\ refs[hi].type # "symbolic" THEN refs[hi].hash ELSE ZeroHash
      ti == IF target # "" THEN FirstNamed(refs, target) ELSE 0
      next == IF ti # 0 /\ refs[ti].type = "symbolic" THEN FirstNamed(refs, refs[ti].target) ELSE 0
  IN  IF next # 0 THEN refs[next].hash
      ELSE IF ti # 0 THEN refs[ti].hash ELSE direct

\* Lines 111-135: the hash HEAD names in a listing, following one symbolic level.
HeadHash(refs) ==
  LET hi == FirstNamed(refs, "HEAD")
      target == IF hi # 0 /\ refs[hi].type = "symbolic" THEN refs[hi].target ELSE ""
      direct == IF hi # 0 /\ refs[hi].type # "symbolic" THEN refs[hi].hash ELSE ZeroHash
      ti == IF target # "" THEN FirstNamed(refs, target) ELSE 0
  IN  IF ti # 0 THEN refs[ti].hash ELSE direct

\* Mutant of listsRemote: every reference is looked up on the remote.
listsRemoteAlways(h) == TRUE

\* Line 97: the remote is listed for the "HEAD" sentinel only.
listsRemote(h) == h = HEAD

\* getHash (lines 94-145): [ok, hash]; listing is consulted only for "HEAD".
getHash(h, listing) ==
  IF listsRemote(h)
    THEN IF listing.err
           THEN [ok |-> FALSE, hash |-> ZeroHash]
           ELSE LET hash == HeadHash(listing.refs)
                IN  IF hash = ZeroHash
                      THEN [ok |-> FALSE, hash |-> ZeroHash]
                      ELSE [ok |-> TRUE, hash |-> hash]
    ELSE FromHex(h)

(***************************************************************************)
(* Settings and their fingerprint.                                         *)
(***************************************************************************)
SettingsChoices ==
  { [Runs |-> 1, Depth |-> 4, BuildCmd |-> "make", RunCmd |-> "bin/bench %p"],
    [Runs |-> 2, Depth |-> 4, BuildCmd |-> "make", RunCmd |-> "bin/bench %p"] }

\* A build command that does nothing and succeeds, and settings that use it.
NoOpCmd == "true"
NoOpBuildSettings == [Runs |-> 3, Depth |-> 4, BuildCmd |-> NoOpCmd, RunCmd |-> "sleep 0.01"]

\* What bash -c cmd can do in a workspace (lines 227-228): whether it exits
\* with 0 and whether the bin directory is there afterwards.
BuildOutcomes(cmd, bin) ==
  IF cmd = NoOpCmd
    THEN {[ok |-> TRUE, bin |-> bin]}
    ELSE {[ok |-> o, bin |-> b] : o \in BOOLEAN, b \in {bin, TRUE}}

\* A settings struct with no field given (Go's zero value).
ZeroSettings == [Runs |-> 0, Depth |-> 0, BuildCmd |-> "", RunCmd |-> ""]

\* json.Marshal of a settings struct: the fields in declaration order.
Marshal(s) == <<"runs", s.Runs, "depth", s.Depth, "buildCmd", s.BuildCmd, "runCmd", s.RunCmd>>

\* sha256.Sum256: a digest that is different for different inputs.
Sum256(data) == <<"sha256", data>>

\* Lines 182-187: the fingerprint of a commit's settings.
Fingerprint(s) == Sum256(Marshal(s))

\* The marker's content when the file does not exist, and before it was looked at.
NoFile == <<"nofile">>
NotRead == <<"notread">>

RefA == [i \in 1..HashHexLen |-> "a"]
RefBad == [i \in 1..HashHexLen |-> "g"]

BaseSettings == CHOOSE s \in SettingsChoices : s.Runs = 1

\* The commits a configuration is made of: an explicit id under either
\* settings, the remote head, and a malformed reference.
CommitChoices ==
  {[Hash |-> RefA, Settings |-> s] : s \in SettingsChoices \cup {NoOpBuildSettings}}
    \cup {[Hash |-> h, Settings |-> BaseSettings] : h \in {HEAD, RefBad}}

SeqsUpTo(S, n) == UNION {[1..k -> S] : k \in 0..n}

\* The configurations getConfig can load.
Configs == SeqsUpTo(CommitChoices, MaxCommits)

VARIABLES
  cfg,         \* cfg.Commits of this invocation
  fs,          \* build/<id>: [dir, marker, bin] per workspace name
  pc,          \* position of main
  idx,         \* loop index of buildCommits / runCommits (1-based)
  hash,        \* hash.String() of the current call, None before getHash
  err,         \* the error the current call returns, NilErr if none
  runs,        \* the samples of the current runCommit
  invocation,  \* number of program starts so far
  call,        \* what the current call has done so far (observation)
  last,        \* per workspace, the previous buildCommit call that reached the cache check
  built,       \* commits whose buildCommit returned nil in this invocation
  attempted,   \* commits whose buildCommit was entered in this invocation
  results,     \* commits whose benchmark result was printed in this invocation
  builtAs,     \* per built commit, the workspace name its buildCommit worked on
  refArg,      \* getHash alone: its argument h
  remoteRefs,  \* getHash alone: what the last remote listing gave
  hashOut,     \* getHash alone: the results of the calls made so far
  listCalls,   \* getHash alone: number of remote listings made so far
  baseSettings,   \* getConfig alone: appConfig.BaseSettings
  rawSettings,    \* getConfig alone: the commits' settings as unmarshalled
  commitSettings, \* getConfig alone: the commits' settings, updated in place
  applyIdx        \* getConfig alone: commits gone through by the loop of line 86

\* The variables of the pipeline, of getHash taken alone and of getConfig taken alone.
mainVars ==
  <<cfg, fs, pc, idx, hash, err, runs, invocation, call, last, built, attempted, results,
    builtAs>>
hashVars == <<refArg, remoteRefs, hashOut, listCalls>>
settingsVars == <<baseSettings, rawSettings, commitSettings, applyIdx>>

vars == <<mainVars, hashVars, settingsVars>>

NoWorkspace == [dir |-> FALSE, marker |-> NoFile, bin |-> FALSE]

FreshCall ==
  [clones |-> 0, checkouts |-> 0, writes |-> 0, builds |-> 0, buildOK |-> FALSE,
   warmups |-> 0, timed |-> 0, dir0 |-> FALSE, marker0 |-> NotRead]

\* No earlier buildCommit call has reached the cache check of a workspace.
NoCall == [fp |-> NoFile, builds |-> 0, ok |-> FALSE]

\* The commit the current call works on.
Cur == cfg[idx]

\* Mutant of dirExists: the directory is never found.
dirExistsNever(w) == FALSE

\* dirExists (lines 44-51) of build/<w>.
dirExists(w) == fs[w].dir

\* Mutant of binExists: the bin directory is not looked for.
binExistsAlways(w) == TRUE

\* dirExists of build/<w>/bin (line 270).
binExists(w) == fs[w].dir /\ fs[w].bin

\* Mutant of bytesEqual: the comparison never succeeds.
bytesNeverEqual(data, sha) == FALSE

\* Line 200: the marker's bytes equal the fingerprint.
bytesEqual(data, sha) == data = sha

\* Mutant of needsBuild: a missing marker is not taken as a reason to build.
needsBuildOnMismatchOnly(rebuild, statErr) == rebuild

\* Line 208, after os.Stat and the comparison: the marker is (re)written and the
\* build follows; otherwise buildCommit returns the "Error with Stat" error.
needsBuild(rebuild, statErr) == rebuild \/ statErr = "notexist"

\* Mutants of buildFatal and runFatal: the error is logged and the loop goes on.
buildFatalNever(e) == FALSE
runFatalNever(e) == FALSE

\* Lines 245-247 and 328-330: log.Fatalf ends the process on any error.
buildFatal(e) == e # NilErr
runFatal(e) == e # NilErr

\* Mutant of buildLoopDone: the build loop stops after the first commit.
buildLoopDoneEarly(i, n) == i >= 1

\* Line 243: the build loop has gone through every commit.
buildLoopDone(i, n) == i >= n

\* Mutant of timedLoopDone: the timed loop stops one run short.
timedLoopDoneShort(i, n) == i >= n - 1

\* Line 293: the timed loop has run c.Settings.Runs times.
timedLoopDone(i, n) == i >= n

\* Elapsed wall-clock times (microseconds) a run can take.
Durations == {0, 1500}

\* Line 304: float64(elapsed.Microseconds()) / 1000.0, as <<whole ms, thousandths>>.
Millis(us) == <<us \div 1000, us % 1000>>

\* Entering buildCommit / runCommit for commit i.
EnterCall(i, at) ==
  /\ idx' = i
  /\ pc' = at
  /\ hash' = None
  /\ err' = NilErr
  /\ runs' = <<>>
  /\ call' = FreshCall

\* main after getConfig: buildCommits, then runCommits (lines 340-341).
StartMain(c) ==
  /\ cfg' = c
  /\ built' = {}
  /\ results' = <<>>
  /\ builtAs' = <<>>
  /\ IF Len(c) = 0
       THEN /\ pc' = "exit"
            /\ idx' = 0
            /\ hash' = None
            /\ err' = NilErr
            /\ runs' = <<>>
            /\ call' = FreshCall
            /\ attempted' = {}
       ELSE /\ EnterCall(1, "b_hash")
            /\ attempted' = {1}

\* No remote listing was made.
NoListing == [err |-> FALSE, refs |-> <<>>]

\* getHash and getConfig taken alone are not running.
HashIdle ==
  /\ refArg = <<>>
  /\ remoteRefs = NoListing
  /\ hashOut = <<>>
  /\ listCalls = 0

SettingsIdle ==
  /\ baseSettings = ZeroSettings
  /\ rawSettings = <<>>
  /\ commitSettings = <<>>
  /\ applyIdx = 0

Init ==
  /\ HashIdle
  /\ SettingsIdle
  /\ builtAs = <<>>
  /\ cfg \in Configs
  /\ fs = [w \in WorkDirs |-> NoWorkspace]
  /\ invocation = 1
  /\ last = [w \in WorkDirs |-> NoCall]
  /\ built = {}
  /\ attempted = IF Len(cfg) = 0 THEN {} ELSE {1}
  /\ results = <<>>
  /\ idx = IF Len(cfg) = 0 THEN 0 ELSE 1
  /\ pc = IF Len(cfg) = 0 THEN "exit" ELSE "b_hash"
  /\ hash = None
  /\ err = NilErr
  /\ runs = <<>>
  /\ call = FreshCall

\* The process ends (main returns, or log.Fatalf exits): its memory is gone,
\* the workspace root stays.
Terminate ==
  /\ pc \in {"exit", "fatal"}
  /\ pc' = "off"
  /\ cfg' = <<>>
  /\ idx' = 0
  /\ hash' = None
  /\ err' = NilErr
  /\ runs' = <<>>
  /\ call' = FreshCall
  /\ built' = {}
  /\ attempted' = {}
  /\ results' = <<>>
  /\ builtAs' = <<>>
  /\ UNCHANGED <<fs, invocation, last>>

  /\ UNCHANGED <<hashVars, settingsVars>>
\* The program is started again on the same workspace root.
Invoke ==
  /\ pc = "off"
  /\ invocation < MaxInvocations
  /\ invocation' = invocation + 1
  /\ \E c \in Configs : StartMain(c)
  /\ UNCHANGED <<fs, last>>

  /\ UNCHANGED <<hashVars, settingsVars>>
(***************************************************************************)
(* buildCommit (lines 147-236)                                             *)
(***************************************************************************)
\* Lines 148-154: resolve the reference.
BuildGetHash ==
  /\ pc = "b_hash"
  /\ \E listing \in ListResults :
       LET r == getHash(Cur.Hash, listing)
       IN  IF r.ok
             THEN /\ hash' = HashString(r.hash)
                  /\ pc' = "b_dir"
                  /\ err' = err
             ELSE /\ hash' = hash
                  /\ pc' = "b_ret"
                  /\ err' = "hash"
  /\ UNCHANGED <<cfg, fs, idx, runs, invocation, call, last, built, attempted, results>>

  /\ UNCHANGED <<builtAs, hashVars, settingsVars>>
\* Lines 157-166: clone unless the directory exists.  git.PlainClone creates
\* the directory and, when the clone fails, removes what it created.
BuildClone ==
  /\ pc = "b_dir"
  /\ IF dirExists(hash)
       THEN /\ pc' = "b_check"
            /\ call' = [call EXCEPT !.dir0 = fs[hash].dir]
            /\ UNCHANGED <<fs, err>>
       ELSE /\ call' = [call EXCEPT !.dir0 = fs[hash].dir, !.clones = @ + 1]
            /\ \/ /\ fs' = [fs EXCEPT ![hash] = [dir |-> TRUE, marker |-> NoFile, bin |-> FALSE]]
                  /\ pc' = "b_checkout"
                  /\ err' = err
               \/ /\ fs' = [fs EXCEPT ![hash] = NoWorkspace]
                  /\ pc' = "b_ret"
                  /\ err' = "clone"
  /\ UNCHANGED <<cfg, idx, hash, runs, invocation, last, built, attempted, results>>

  /\ UNCHANGED <<builtAs, hashVars, settingsVars>>
\* Lines 168-178: check out the commit into the fresh clone.  The tree may
\* carry a bin directory.
BuildCheckout ==
  /\ pc = "b_checkout"
  /\ call' = [call EXCEPT !.checkouts = @ + 1]
  /\ \/ /\ \E b \in BOOLEAN : fs' = [fs EXCEPT ![hash].bin = b]
        /\ pc' = "b_check"
        /\ err' = err
     \/ /\ fs' = fs
        /\ pc' = "b_ret"
        /\ err' = "checkout"
  /\ UNCHANGED <<cfg, idx, hash, runs, invocation, last, built, attempted, results>>

  /\ UNCHANGED <<builtAs, hashVars, settingsVars>>
\* Lines 181-218: stat and read the marker, compare, decide.
BuildCheck ==
  /\ pc = "b_check"
  /\ LET sha == Fingerprint(Cur.Settings)
         data == fs[hash].marker
         statErr == IF data = NoFile THEN "notexist" ELSE NilErr
         rebuild == IF statErr = NilErr THEN ~bytesEqual(data, sha) ELSE FALSE
     IN  /\ call' = [call EXCEPT !.marker0 = data]
         /\ IF needsBuild(rebuild, statErr)
              THEN pc' = "b_write" /\ err' = err
              ELSE pc' = "b_ret" /\ err' = "stat"
  /\ UNCHANGED <<cfg, fs, idx, hash, runs, invocation, last, built, attempted, results>>

  /\ UNCHANGED <<builtAs, hashVars, settingsVars>>
\* Mutant of BuildWrite: the marker is not written before the build.
BuildWriteSkipped ==
  /\ pc = "b_write"
  /\ pc' = "b_build"
  /\ UNCHANGED <<cfg, fs, idx, hash, err, runs, invocation, call, last, built, attempted, results>>

  /\ UNCHANGED <<builtAs, hashVars, settingsVars>>
\* Lines 209-215: write the fingerprint to the marker.
BuildWrite ==
  /\ pc = "b_write"
  /\ fs' = [fs EXCEPT ![hash].marker = Fingerprint(Cur.Settings)]
  /\ call' = [call EXCEPT !.writes = @ + 1]
  /\ pc' = "b_build"
  /\ UNCHANGED <<cfg, idx, hash, err, runs, invocation, last, built, attempted, results>>

  /\ UNCHANGED <<builtAs, hashVars, settingsVars>>
\* Mutant of BuildRun: a failed build removes the marker again.
BuildRunRollback ==
  /\ pc = "b_build"
  /\ \E o \in BuildOutcomes(Cur.Settings.BuildCmd, fs[hash].bin) :
       /\ fs' = [fs EXCEPT ![hash].bin = o.bin,
                           ![hash].marker = IF o.ok THEN @ ELSE NoFile]
       /\ call' = [call EXCEPT !.builds = @ + 1, !.buildOK = o.ok]
       /\ err' = IF o.ok THEN NilErr ELSE "build"
  /\ pc' = "b_ret"
  /\ UNCHANGED <<cfg, idx, hash, runs, invocation, last, built, attempted, results>>

  /\ UNCHANGED <<builtAs, hashVars, settingsVars>>
\* Lines 221-235: run the build command in the workspace.  The command may
\* create the bin directory.
BuildRun ==
  /\ pc = "b_build"
  /\ \E o \in BuildOutcomes(Cur.Settings.BuildCmd, fs[hash].bin) :
       /\ fs' = [fs EXCEPT ![hash].bin = o.bin]
       /\ call' = [call EXCEPT !.builds = @ + 1, !.buildOK = o.ok]
       /\ err' = IF o.ok THEN NilErr ELSE "build"
  /\ pc' = "b_ret"
  /\ UNCHANGED <<cfg, idx, hash, runs, invocation, last, built, attempted, results>>

  /\ UNCHANGED <<builtAs, hashVars, settingsVars>>
\* buildCommits (lines 243-250) and main (line 341): what follows a return of
\* buildCommit.
BuildReturn ==
  /\ pc = "b_ret"
  /\ last' = IF call.marker0 # NotRead
               THEN [last EXCEPT ![hash] = [fp |-> Fingerprint(Cur.Settings),
                                            builds |-> call.builds,
                                            ok |-> call.buildOK]]
               ELSE last
  /\ IF buildFatal(err)
       THEN /\ pc' = "fatal"
            /\ hash' = None
            /\ call' = FreshCall
            /\ UNCHANGED <<idx, err, runs, built, attempted, builtAs>>
       ELSE /\ built' = IF err = NilErr THEN built \cup {idx} ELSE built
            /\ builtAs' = Append(builtAs, hash)
            /\ IF buildLoopDone(idx, Len(cfg))
                 THEN /\ EnterCall(1, "r_hash")
                      /\ attempted' = attempted
                 ELSE /\ EnterCall(idx + 1, "b_hash")
                      /\ attempted' = attempted \cup {idx + 1}
  /\ UNCHANGED <<cfg, fs, invocation, results>>

  /\ UNCHANGED <<hashVars, settingsVars>>
(***************************************************************************)
(* runCommit (lines 253-319)                                               *)
(***************************************************************************)
\* Lines 255-262: resolve the reference again.
RunGetHash ==
  /\ pc = "r_hash"
  /\ \E listing \in ListResults :
       LET r == getHash(Cur.Hash, listing)
       IN  IF r.ok
             THEN /\ hash' = HashString(r.hash)
                  /\ pc' = "r_check"
                  /\ err' = err
             ELSE /\ hash' = hash
                  /\ pc' = "r_ret"
                  /\ err' = "hash"
  /\ UNCHANGED <<cfg, fs, idx, runs, invocation, call, last, built, attempted, results>>

  /\ UNCHANGED <<builtAs, hashVars, settingsVars>>
\* Mutant of RunCheck: a missing workspace directory is created.
RunCheckMakesDir ==
  /\ pc = "r_check"
  /\ IF ~dirExists(hash)
       THEN /\ fs' = [fs EXCEPT ![hash].dir = TRUE]
            /\ pc' = "r_ret"
            /\ err' = "nobin"
       ELSE /\ fs' = fs
            /\ IF ~binExists(hash)
                 THEN pc' = "r_ret" /\ err' = "nobin"
                 ELSE pc' = "r_warm" /\ err' = err
  /\ UNCHANGED <<cfg, idx, hash, runs, invocation, call, last, built, attempted, results>>
  /\ UNCHANGED <<builtAs, hashVars, settingsVars>>

\* Lines 264-277: the workspace and its bin directory must exist.
RunCheck ==
  /\ pc = "r_check"
  /\ IF ~dirExists(hash)
       THEN pc' = "r_ret" /\ err' = "nodir"
       ELSE IF ~binExists(hash)
              THEN pc' = "r_ret" /\ err' = "nobin"
              ELSE pc' = "r_warm" /\ err' = err
  /\ UNCHANGED <<cfg, fs, idx, hash, runs, invocation, call, last, built, attempted, results>>

  /\ UNCHANGED <<builtAs, hashVars, settingsVars>>
\* Lines 279-292: the untimed warm-up run.
RunWarmup ==
  /\ pc = "r_warm"
  /\ call' = [call EXCEPT !.warmups = @ + 1]
  /\ \/ /\ pc' = "r_timed"
        /\ err' = err
     \/ /\ pc' = "r_ret"
        /\ err' = "warmup"
  /\ UNCHANGED <<cfg, fs, idx, hash, runs, invocation, last, built, attempted, results>>

  /\ UNCHANGED <<builtAs, hashVars, settingsVars>>
\* Mutant of RunTimed: a failed run is noted and the loop goes on to the report.
RunTimedKeepsGoing ==
  /\ pc = "r_timed"
  /\ call' = [call EXCEPT !.timed = @ + 1]
  /\ \E us \in Durations : runs' = Append(runs, Millis(us))
  /\ pc' = IF timedLoopDone(Len(runs) + 1, Cur.Settings.Runs) THEN "r_report" ELSE "r_timed"
  /\ err' \in {err, "run"}
  /\ UNCHANGED <<cfg, fs, idx, hash, invocation, last, built, attempted, results>>
  /\ UNCHANGED <<builtAs, hashVars, settingsVars>>

\* Lines 293-305: one timed run.
RunTimed ==
  /\ pc = "r_timed"
  /\ call' = [call EXCEPT !.timed = @ + 1]
  /\ \/ /\ \E us \in Durations : runs' = Append(runs, Millis(us))
        /\ pc' = IF timedLoopDone(Len(runs) + 1, Cur.Settings.Runs) THEN "r_report" ELSE "r_timed"
        /\ err' = err
     \/ /\ runs' = runs
        /\ pc' = "r_ret"
        /\ err' = "run"
  /\ UNCHANGED <<cfg, fs, idx, hash, invocation, last, built, attempted, results>>

  /\ UNCHANGED <<builtAs, hashVars, settingsVars>>
\* Lines 307-318: mean, standard deviation and the printed result.
RunReport ==
  /\ pc = "r_report"
  /\ results' = Append(results, idx)
  /\ pc' = "r_ret"
  /\ UNCHANGED <<cfg, fs, idx, hash, err, runs, invocation, call, last, built, attempted>>

  /\ UNCHANGED <<builtAs, hashVars, settingsVars>>
\* runCommits (lines 326-331) and the end of main.
RunReturn ==
  /\ pc = "r_ret"
  /\ IF runFatal(err)
       THEN /\ pc' = "fatal"
            /\ hash' = None
            /\ runs' = <<>>
            /\ call' = FreshCall
            /\ UNCHANGED <<idx, err>>
       ELSE IF idx >= Len(cfg)
              THEN /\ pc' = "exit"
                   /\ hash' = None
                   /\ runs' = <<>>
                   /\ call' = FreshCall
                   /\ UNCHANGED <<idx, err>>
              ELSE EnterCall(idx + 1, "r_hash")
  /\ UNCHANGED <<cfg, fs, invocation, last, built, attempted, results>>

  /\ UNCHANGED <<builtAs, hashVars, settingsVars>>
Next ==
  \/ Terminate
  \/ Invoke
  \/ BuildGetHash
  \/ BuildClone
  \/ BuildCheckout
  \/ BuildCheck
  \/ BuildWrite
  \/ BuildRun
  \/ BuildReturn
  \/ RunGetHash
  \/ RunCheck
  \/ RunWarmup
  \/ RunTimed
  \/ RunReport
  \/ RunReturn

Spec == Init /\ [][Next]_vars

(***************************************************************************)
(* Properties                                                              *)
(***************************************************************************)
BuildPcs == {"b_hash", "b_dir", "b_checkout", "b_check", "b_write", "b_build", "b_ret"}
RunPcs == {"r_hash", "r_check", "r_warm", "r_timed", "r_report", "r_ret"}
MaterialiseErrs == {"clone", "checkout"}

\* The fingerprint of the current commit's settings.
CurSha == Fingerprint(Cur.Settings)

\* The marker was looked at in this call and held the current fingerprint.
CacheHit == call.marker0 = CurSha
\* The marker was looked at in this call and was absent or different.
CacheMiss == call.marker0 # NotRead /\ call.marker0 # CurSha

\* C1: when buildCommit finds the marker equal to the fingerprint of the
\* commit's settings it runs no build command, leaves the marker as it was
\* and returns without error.
C1_CacheHitReturnsNil ==
  (pc = "b_ret" /\ CacheHit) =>
    /\ err = NilErr
    /\ call.builds = 0
    /\ fs[hash].marker = call.marker0

\* The previous call on this workspace had the same settings.
SameSettingsAsLast == last[hash] # NoCall /\ last[hash].fp = CurSha

\* C2: two buildCommit calls in a row on a workspace with the same settings,
\* the first of which built successfully, run the build command exactly once
\* between them.
C2_BuildsOnceOverTwoCalls ==
  (pc = "b_ret" /\ call.marker0 # NotRead /\ SameSettingsAsLast
     /\ last[hash].builds = 1 /\ last[hash].ok) =>
    last[hash].builds + call.builds = 1

C2_Witness ==
  /\ pc = "b_ret" /\ call.marker0 # NotRead /\ SameSettingsAsLast
  /\ last[hash].builds = 1 /\ last[hash].ok
  /\ call.builds = 0

C4_FailedBuildKeepsMarker ==
  /\ (pc = "b_ret" /\ call.builds = 1 /\ ~call.buildOK) =>
       (err = "build" /\ fs[hash].marker = CurSha)
  /\ (pc = "b_ret" /\ call.marker0 # NotRead /\ SameSettingsAsLast
        /\ last[hash].builds = 1 /\ ~last[hash].ok) =>
       (call.builds = 0 /\ fs[hash].marker = CurSha)

C4_Witness ==
  /\ pc = "b_ret" /\ call.marker0 # NotRead /\ SameSettingsAsLast
  /\ last[hash].builds = 1 /\ ~last[hash].ok
  /\ call.builds = 0

\* C5: a call that finds the workspace directory present neither clones nor
\* checks out; a workspace that got past materialisation is present, so the
\* next materialisation of the same id does nothing.
C5_PresentWorkspaceUntouched ==
  /\ (pc \in {"b_checkout", "b_check", "b_write", "b_build", "b_ret"} /\ call.dir0) =>
       (call.clones = 0 /\ call.checkouts = 0)
  /\ pc \in {"b_check", "b_write", "b_build"} => fs[hash].dir
  /\ call.clones <= 1 /\ call.checkouts <= call.clones

C5_Witness ==
  /\ pc = "b_ret" /\ call.dir0 /\ call.marker0 # NotRead
  /\ call.clones = 0 /\ call.checkouts = 0

\* C6: after a failed clone or checkout the workspace directory is absent,
\* so that the next materialisation of the id clones afresh.
C6_FailedMaterialisationLeavesNoDir ==
  (pc = "b_ret" /\ err \in MaterialiseErrs) => ~fs[hash].dir

\* C7: no warm-up or timed run is executed before every commit of the
\* configuration has returned from buildCommit without error.
C7_BuildPassBeforeBenchmarks ==
  (pc \in {"r_warm", "r_timed", "r_report"} \/ call.warmups > 0 \/ call.timed > 0
     \/ results # <<>>) =>
    built = 1..Len(cfg)

C7_Witness ==
  /\ call.timed > 0 /\ idx = 1 /\ Len(cfg) >= 2
  /\ built = 1..Len(cfg)

\* The second of three commits has just failed materialisation.
SecondOfThreeFailed ==
  pc = "b_ret" /\ Len(cfg) = 3 /\ idx = 2 /\ err \in MaterialiseErrs

\* C8 as stated: with three commits of which the second fails
\* materialisation, the run ends with a benchmark result for commit 1 only
\* and commit 3 never attempted.
C8_ResultForFirstCommit ==
  (pc = "fatal" /\ Len(cfg) = 3 /\ idx = 2 /\ err \in MaterialiseErrs) =>
    (results = <<1>> /\ 3 \notin attempted)

\* C8 amended: with three commits of which the second fails materialisation,
\* the run halts with no benchmark result at all (commit 1 is built, not
\* benchmarked), the failure of commit 2 reported and commit 3 never attempted.
C8_NoResultAtAll ==
  [][SecondOfThreeFailed =>
       /\ pc' = "fatal" /\ idx' = 2 /\ err' = err
       /\ results' = <<>>
       /\ built' = {1}
       /\ attempted' = {1, 2}]_vars

C8_Witness ==
  /\ pc = "fatal" /\ Len(cfg) = 3 /\ idx = 2 /\ err \in MaterialiseErrs
  /\ results = <<>> /\ attempted = {1, 2}

\* C9: an error of any stage ends the call at once, the process halts on it,
\* and from then on the process touches no file and starts no stage.
C9_FailFast ==
  [][/\ (err = NilErr /\ err' # NilErr) => pc' \in {"b_ret", "r_ret"}
     /\ (pc \in {"b_ret", "r_ret"} /\ err # NilErr) =>
          (pc' = "fatal" /\ fs' = fs /\ err' = err /\ attempted' = attempted
             /\ results' = results)
     /\ pc = "fatal" => (pc' = "off" /\ fs' = fs)]_vars

C9_Witness ==
  pc = "fatal" /\ err = "run" /\ idx < Len(cfg)

\* C10: runCommit runs the command once untimed and then Runs times timed;
\* when every run succeeds it ends with exactly Runs samples, none negative.
C10_WarmupThenNSamples ==
  pc \in RunPcs =>
    LET n == Cur.Settings.Runs
        complete ==
          /\ call.warmups = 1
          /\ call.timed = n
          /\ Len(runs) = n
          /\ \A i \in 1..Len(runs) : runs[i][1] >= 0 /\ runs[i][2] >= 0
    IN  /\ call.warmups <= 1
        /\ call.timed <= n
        /\ call.timed > 0 => call.warmups = 1
        /\ pc = "r_timed" => (call.warmups = 1 /\ Len(runs) = call.timed)
        /\ pc = "r_report" => complete
        /\ (pc = "r_ret" /\ err = NilErr) => complete

C10_Witness ==
  /\ pc = "r_ret" /\ err = NilErr
  /\ Cur.Settings.Runs = 2
  /\ call.warmups = 1 /\ call.timed = 2 /\ Len(runs) = 2
\* The commits whose result was printed.
Reported == {results[k] : k \in 1..Len(results)}

\* C11: a failed warm-up returns at once with no timed run; a failed timed run
\* returns at once, is the last run of the commit, and no result is printed
\* for the commit.
C11_RunFailureNoPartialResult ==
  err \in {"warmup", "run"} =>
    /\ pc \in {"r_ret", "fatal"}
    /\ idx \notin Reported
    /\ (pc = "r_ret" /\ err = "warmup") =>
         (call.warmups = 1 /\ call.timed = 0 /\ runs = <<>>)
    /\ (pc = "r_ret" /\ err = "run") =>
         (call.timed = Len(runs) + 1 /\ call.timed <= Cur.Settings.Runs)

C11_Witness ==
  /\ pc = "r_ret" /\ err = "run"
  /\ call.timed = 2 /\ Len(runs) = 1
  /\ idx \notin Reported

\* C12: without the workspace directory or its bin directory runCommit fails
\* before any command: a warm-up or timed run happens only in a workspace
\* that has both.
C12_NotBuiltRunsNothing ==
  /\ (pc \in {"r_warm", "r_timed", "r_report"} \/ call.warmups > 0 \/ call.timed > 0) =>
       (fs[hash].dir /\ fs[hash].bin)
  /\ (pc = "r_ret" /\ err # "hash" /\ ~(fs[hash].dir /\ fs[hash].bin)) =>
       (err \in {"nodir", "nobin"} /\ call.warmups = 0 /\ call.timed = 0)

C12_Witness ==
  /\ pc = "r_ret" /\ err = "nobin"
  /\ fs[hash].dir /\ ~fs[hash].bin
  /\ call.warmups = 0 /\ call.timed = 0
(***************************************************************************)
(* getHash taken alone: one reference resolved MaxCalls times against      *)
(* whatever the remote advertises at each call.                            *)
(***************************************************************************)
\* Number of getHash calls made on the reference.
MaxCalls == 2
\* Largest number of refs in a remote listing.
MaxRefs == 3

\* The references getHash is given: the sentinel and every text of up to
\* one character more than a commit id.
RefChars == {"0", "a", "A", "g"}
RefArgs == {HEAD} \cup SeqsUpTo(RefChars, HashHexLen + 1)

\* The refs a remote can advertise, and its listings (ref names are unique).
AdvertisedRefs ==
  { HashRef("HEAD", IdA),
    SymRef("HEAD", "refs/heads/main"),
    SymRef("HEAD", "refs/heads/dev"),
    HashRef("refs/heads/main", IdB),
    SymRef("refs/heads/main", "refs/heads/dev"),
    HashRef("refs/heads/dev", IdA) }

RemoteListings ==
  {l \in SeqsUpTo(AdvertisedRefs, MaxRefs) :
     \A i, j \in 1..Len(l) : l[i].name = l[j].name => i = j}

RemoteAnswers ==
  {[err |-> TRUE, refs |-> <<>>]} \cup {[err |-> FALSE, refs |-> l] : l \in RemoteListings}

\* The pipeline is not running.
MainIdle ==
  /\ cfg = <<>>
  /\ fs = [w \in WorkDirs |-> NoWorkspace]
  /\ pc = "off"
  /\ idx = 0
  /\ hash = None
  /\ err = NilErr
  /\ runs = <<>>
  /\ invocation = 0
  /\ call = FreshCall
  /\ last = [w \in WorkDirs |-> NoCall]
  /\ built = {}
  /\ attempted = {}
  /\ results = <<>>
  /\ builtAs = <<>>

InitHash ==
  /\ MainIdle
  /\ SettingsIdle
  /\ refArg \in RefArgs
  /\ remoteRefs = NoListing
  /\ hashOut = <<>>
  /\ listCalls = 0

\* One call getHash(refArg, cfg): the remote is listed only on the branch of
\* line 97.
CallGetHash ==
  /\ Len(hashOut) < MaxCalls
  /\ \E answer \in RemoteAnswers :
       /\ hashOut' = Append(hashOut, getHash(refArg, answer))
       /\ IF listsRemote(refArg)
            THEN remoteRefs' = answer /\ listCalls' = listCalls + 1
            ELSE UNCHANGED <<remoteRefs, listCalls>>
  /\ UNCHANGED <<refArg, mainVars, settingsVars>>

NextHash == CallGetHash

SpecHash == InitHash /\ [][NextHash]_vars

\* A reference that is a commit id in hex, and the id it spells.
HexDigits == {"0", "a", "A", "b", "B"}
WellFormed(r) == Len(r) = HashHexLen /\ \A i \in 1..Len(r) : r[i] \in HexDigits
ToLower(c) == CASE c = "A" -> "a" [] c = "B" -> "b" [] OTHER -> c
Spelled(r) == [i \in 1..Len(r) |-> ToLower(r[i])]

Named(refs, n) == {i \in 1..Len(refs) : refs[i].name = n}
Failure == [ok |-> FALSE, hash |-> ZeroHash]
ExpectedHead(answer) ==
  IF answer.err \/ Named(answer.refs, "HEAD") = {}
    THEN Failure
    ELSE LET refs == answer.refs
             head == refs[CHOOSE i \in Named(refs, "HEAD") : TRUE]
         IN  IF head.type = "hash"
               THEN [ok |-> TRUE, hash |-> head.hash]
               ELSE IF Named(refs, head.target) = {}
                      THEN Failure
                      ELSE LET t == refs[CHOOSE i \in Named(refs, head.target) : TRUE]
                           IN  IF t.type = "symbolic"
                                 THEN Failure
                                 ELSE [ok |-> TRUE, hash |-> t.hash]

\* C15: for "HEAD" the result is the id of the remote's HEAD ref when it is
\* direct, the id of the ref it names when it is symbolic (one level), and
\* an error when there is no HEAD, no target ref, or a symbolic target.
C15_HeadResolution ==
  (refArg = HEAD /\ Len(hashOut) > 0) =>
    /\ listCalls = Len(hashOut)
    /\ hashOut[Len(hashOut)] = ExpectedHead(remoteRefs)

\* HEAD is symbolic, its target is symbolic too and names a direct ref.
C15_Witness ==
  /\ refArg = HEAD /\ Len(hashOut) > 0
  /\ ~remoteRefs.err
  /\ \E i, j, k \in 1..Len(remoteRefs.refs) :
       LET refs == remoteRefs.refs
       IN  /\ refs[i].name = "HEAD" /\ refs[i].type = "symbolic"
           /\ refs[j].name = refs[i].target /\ refs[j].type = "symbolic"
           /\ refs[k].name = refs[j].target /\ refs[k].type = "hash"
  /\ ~hashOut[Len(hashOut)].ok
\* The first invocation, on an empty workspace root, of a configuration of
\* one commit with run_count 3 and a build command that does nothing.
EndToEndScenario ==
  /\ invocation = 1
  /\ Len(cfg) = 1
  /\ cfg[1] = [Hash |-> RefA, Settings |-> NoOpBuildSettings]

WorkspaceA == HashString(IdA)

\* Failures of the environment: the clone, the checkout, a run command.
EnvironmentErrs == {"clone", "checkout", "warmup", "run"}

\* C14 as stated: in the scenario, unless the clone, the checkout or a run
\* command fails, the run ends normally with the benchmark result of the commit.
C14_EndToEndResult ==
  (EndToEndScenario /\ pc \in {"exit", "fatal"} /\ err \notin EnvironmentErrs) =>
    (pc = "exit" /\ results = <<1>>)

\* C14 amended: in the scenario the build command is executed exactly once;
\* if the workspace has a bin directory (which the checked-out tree must
\* bring, the build creating none) and no run command fails, the warm-up is
\* executed once, the timed run three times and the result is printed; the
\* run is cut short only by a failed clone, checkout or run command, or by
\* the missing bin directory.
C14_EndToEndGivenBin ==
  EndToEndScenario =>
    /\ (pc = "b_ret" /\ err = NilErr) =>
         (call.clones = 1 /\ call.checkouts = 1 /\ call.builds = 1 /\ call.buildOK)
    /\ pc \in RunPcs =>
         last[WorkspaceA] = [fp |-> Fingerprint(NoOpBuildSettings), builds |-> 1, ok |-> TRUE]
    /\ (pc = "r_ret" /\ err = NilErr) =>
         (call.warmups = 1 /\ call.timed = 3 /\ Len(runs) = 3 /\ results = <<1>>)
    /\ pc = "exit" => (results = <<1>> /\ fs[WorkspaceA].bin)
    /\ pc = "fatal" => (err \in EnvironmentErrs \/ (err = "nobin" /\ ~fs[WorkspaceA].bin))

C14_Witness ==
  /\ EndToEndScenario
  /\ pc = "exit"
  /\ results = <<1>>
  /\ last[WorkspaceA].builds = 1
\* C16: in each pass the commits are gone through in configuration order:
\* commit idx is worked on only when every commit before it has come through
\* the same pass without error.
C16_CommitOrder ==
  /\ pc \in BuildPcs =>
       (built = 1..(idx - 1) /\ attempted = 1..idx /\ results = <<>>)
  /\ pc \in RunPcs =>
       /\ \A k \in 1..Len(results) : results[k] = k
       /\ Len(results) \in {idx - 1, idx}
       /\ pc # "r_ret" => Len(results) = idx - 1
       /\ built = 1..Len(cfg)

C16_Witness ==
  /\ pc = "r_warm" /\ idx = 3
  /\ results = <<1, 2>>
  /\ builtAs # <<>>

\* C17: no step of runCommit or runCommits creates or removes a workspace
\* directory or changes a marker file, whether the benchmark succeeds or fails.
C17_BenchmarkWritesNothing ==
  [][(pc \in RunPcs) => (fs' = fs)]_vars

C17_Witness ==
  /\ pc = "fatal" /\ err \in {"warmup", "run"}
  /\ results # <<>>
  /\ \E w \in WorkDirs : fs[w].marker # NoFile
(***************************************************************************)
(* getConfig taken alone: the loop of lines 86-89 over the commits' settings. *)
(***************************************************************************)
\* Largest number of commits in the loaded configuration.
MaxLoaded == 2

\* Mutant of applySettings: the base settings are taken only when the commit
\* gives no field at all.
applySettingsWhole(cfgSettings, base) ==
  IF cfgSettings = ZeroSettings THEN base ELSE cfgSettings

\* applySettings (lines 53-66): the settings *cfgSettings holds afterwards.
applySettings(cfgSettings, base) ==
  [Runs |-> IF cfgSettings.Runs = 0 THEN base.Runs ELSE cfgSettings.Runs,
   Depth |-> IF cfgSettings.Depth = 0 THEN base.Depth ELSE cfgSettings.Depth,
   BuildCmd |-> IF cfgSettings.BuildCmd = "" THEN base.BuildCmd ELSE cfgSettings.BuildCmd,
   RunCmd |-> IF cfgSettings.RunCmd = "" THEN base.RunCmd ELSE cfgSettings.RunCmd]

\* Settings as json.Unmarshal leaves them: a field not given is 0 or "".
CommitSettingsInputs ==
  [Runs : {0, 3}, Depth : {0, -1}, BuildCmd : {"", "make"}, RunCmd : {"", "bin/bench %p"}]
BaseSettingsInputs ==
  [Runs : {0, 5}, Depth : {0, 6}, BuildCmd : {"", "cmake"}, RunCmd : {"", "bench"}]

InitSettings ==
  /\ MainIdle
  /\ HashIdle
  /\ baseSettings \in BaseSettingsInputs
  /\ rawSettings \in UNION {[1..n -> CommitSettingsInputs] : n \in 1..MaxLoaded}
  /\ commitSettings = rawSettings
  /\ applyIdx = 0

\* One turn of the loop of lines 86-89.
ApplyNextCommit ==
  /\ applyIdx < Len(commitSettings)
  /\ commitSettings' =
       [commitSettings EXCEPT ![applyIdx + 1] = applySettings(@, baseSettings)]
  /\ applyIdx' = applyIdx + 1
  /\ UNCHANGED <<baseSettings, rawSettings, mainVars, hashVars>>

NextSettings == ApplyNextCommit

SpecSettings == InitSettings /\ [][NextSettings]_vars

\* C18: after applySettings every field of a commit's settings is the
\* commit's own value if that is not 0 / "", and the base value otherwise,
\* field by field; commits the loop has not reached are as loaded.
C18_FieldwiseInheritance ==
  /\ Len(commitSettings) = Len(rawSettings)
  /\ \A k \in 1..Len(commitSettings) :
       LET own == rawSettings[k]
           now == commitSettings[k]
       IN  IF k <= applyIdx
             THEN /\ now.Runs = (IF own.Runs # 0 THEN own.Runs ELSE baseSettings.Runs)
                  /\ now.Depth = (IF own.Depth # 0 THEN own.Depth ELSE baseSettings.Depth)
                  /\ now.BuildCmd =
                       (IF own.BuildCmd # "" THEN own.BuildCmd ELSE baseSettings.BuildCmd)
                  /\ now.RunCmd = (IF own.RunCmd # "" THEN own.RunCmd ELSE baseSettings.RunCmd)
             ELSE now = own

\* A commit that gave some fields and not others, after the merge.
C18_Witness ==
  /\ applyIdx >= 1
  /\ rawSettings[1].Runs = 0 /\ baseSettings.Runs # 0
  /\ rawSettings[1].Depth # 0 /\ baseSettings.Depth # 0
  /\ rawSettings[1].BuildCmd = "" /\ baseSettings.BuildCmd = ""
  /\ commitSettings[1].Runs = baseSettings.Runs
  /\ commitSettings[1].Depth = rawSettings[1].Depth
  /\ commitSettings[1].BuildCmd = ""
\* C19: whenever a commit's warm-up has been executed, the workspace it ran
\* in is the one buildCommit materialised and built for that commit earlier
\* in the same run, also when the reference is HEAD and the remote head has
\* moved between the two passes.
C19_BenchmarkedIsBuilt ==
  (pc \in RunPcs /\ call.warmups > 0) => hash = builtAs[idx]

\* C20: whenever a commit's warm-up or timed run has been executed, the
\* marker file of the workspace it ran in is the fingerprint of that commit's
\* own settings, also when several commits share one workspace.
C20_MarkerIsOwnFingerprint ==
  (pc \in RunPcs /\ (call.warmups > 0 \/ call.timed > 0)) =>
    fs[hash].marker = CurSha
====
